---- MODULE Spec2Model ----
(***************************************************************************)
(* Model of the Tam Vonku travel dashboard (src/app.py, src/flights.py).   *)
(*                                                                         *)
(* The program is a set of functions over tables (pandas DataFrames).  A   *)
(* table is a record [cols, rows]: cols is the set of column names, rows a *)
(* sequence of functions from column name to cell.  Cells of string        *)
(* columns are strings, NA being the missing marker; cells of the columns  *)
(* the program lower-cases (platform, type of transport) are texts, the    *)
(* sequences of their characters, NAText being the missing marker; cells   *)
(* of numeric and date columns are exact numbers (see Num), NaN being the  *)
(* missing marker (NaN and NaT alike).  A date is the number of its        *)
(* proleptic Gregorian ordinal, so that a difference of dates is a number  *)
(* of days.                                                                *)
(*                                                                         *)
(* Each function of the program is an operator computed as the code        *)
(* computes it, returning what the caller observes: the value returned (or *)
(* the exception that propagates) and the messages shown to the user.      *)
(* Each specification draws the function's input in its initial state and  *)
(* its actions apply the function: SpecLoader (the two loaders),           *)
(* SpecMetrics (create_summary_metrics), SpecAdjust (adjust_nights),       *)
(* SpecCountry (create_country_summary) and SpecGeo (create_world_map).    *)
(***************************************************************************)
EXTENDS Integers, Sequences, FiniteSets, TLC

VARIABLES
    file,   \* the CSV file a loader is about to read
    df,     \* the table held by the caller and passed to the functions
    ret,    \* what the last call returned
    msgs,   \* the user-visible messages (st.error, st.warning, st.info) so far
    pc      \* "start", then the name of the function that has run

vars == <<file, df, ret, msgs, pc>>

(***************************************************************************)
(* Numbers.  float64 values are modelled exactly: a finite value is the    *)
(* rational n/d in lowest terms with d > 0, NaN is the missing value, and  *)
(* Inf(s) is the signed infinity that float division by zero gives.        *)
(***************************************************************************)
RECURSIVE GCD(_, _)
GCD(a, b) == IF b = 0 THEN a ELSE GCD(b, a % b)

Abs(x) == IF x < 0 THEN -x ELSE x

Sign(x) == IF x < 0 THEN -1 ELSE IF x = 0 THEN 0 ELSE 1

Num(n, d) ==
    LET s == IF d < 0 THEN -1 ELSE 1
        g == GCD(Abs(n), Abs(d))
    IN  [k |-> "num", n |-> (s * n) \div g, d |-> (s * d) \div g]

Int2Num(i) == Num(i, 1)

NaN == [k |-> "nan", n |-> 0, d |-> 1]

Inf(s) == [k |-> "inf", n |-> s, d |-> 1]

\* pd.isna / pd.notna on a numeric or date cell
IsNaN(x) == x.k = "nan"

\* float addition
Add(x, y) ==
    IF IsNaN(x) \/ IsNaN(y) THEN NaN
    ELSE IF x.k = "inf" /\ y.k = "inf" THEN (IF x.n = y.n THEN x ELSE NaN)
    ELSE IF x.k = "inf" THEN x
    ELSE IF y.k = "inf" THEN y
    ELSE Num(x.n * y.d + y.n * x.d, x.d * y.d)

\* float64 division as numpy and pandas do it: no exception on a zero divisor
Div(x, y) ==
    IF IsNaN(x) \/ IsNaN(y) THEN NaN
    ELSE IF x.k = "inf" THEN
        (IF y.k = "inf" THEN NaN ELSE Inf(x.n * (IF y.n < 0 THEN -1 ELSE 1)))
    ELSE IF y.k = "inf" THEN Num(0, 1)
    ELSE IF y.n = 0 THEN (IF x.n = 0 THEN NaN ELSE Inf(Sign(x.n)))
    ELSE Num(x.n * y.d, x.d * y.n)

\* x > 0 on floats (False for NaN)
Positive(x) == (x.k = "inf" /\ x.n > 0) \/ (x.k = "num" /\ x.n > 0)

\* x == i for an integer literal i (False for NaN)
EqualsInt(x, i) == x.k = "num" /\ x.d = 1 /\ x.n = i

\* x <= y on finite numbers
Leq(x, y) == x.n * y.d <= y.n * x.d

\* round(x, 2): to the nearest hundredth, halves to the even hundredth (of the
\* exact value: the representation error of a binary float is not modelled)
Round2(x) ==
    IF x.k # "num" THEN x
    ELSE LET a  == Abs(x.n) * 100
             q  == a \div x.d
             r  == a % x.d
             up == (2 * r > x.d) \/ (2 * r = x.d /\ q % 2 = 1)
         IN  Num(Sign(x.n) * (IF up THEN q + 1 ELSE q), 100)

(***************************************************************************)
(* Text.  A cell of a CSV file is a sequence of one-character strings, so  *)
(* that the cleaning the loaders do is computed character by character.    *)
(***************************************************************************)
Digits == <<"0", "1", "2", "3", "4", "5", "6", "7", "8", "9">>

IsDigit(c) == \E i \in 1..10 : Digits[i] = c

DigitVal(c) == (CHOOSE i \in 1..10 : Digits[i] = c) - 1

\* str.replace(old, new) for a one-character old; new is a sequence of characters
RECURSIVE Replace(_, _, _)
Replace(s, old, new) ==
    IF s = <<>> THEN <<>>
    ELSE (IF Head(s) = old THEN new ELSE <<Head(s)>>) \o Replace(Tail(s), old, new)

RECURSIVE AllDigits(_)
AllDigits(s) == s = <<>> \/ (IsDigit(Head(s)) /\ AllDigits(Tail(s)))

\* the value of a sequence of digits (0 for the empty sequence)
RECURSIVE DigitsVal(_)
DigitsVal(s) ==
    IF s = <<>> THEN 0 ELSE DigitsVal(SubSeq(s, 1, Len(s) - 1)) * 10 + DigitVal(s[Len(s)])

RECURSIVE Pow10(_)
Pow10(e) == IF e = 0 THEN 1 ELSE 10 * Pow10(e - 1)

\* float(s) on a string: [ok, val]; ok = FALSE is the ValueError float raises.
\* The grammar is the decimal one, sign? digit* ('.' digit*)? with a digit, and
\* "nan", the text astype(str) gives a missing cell.
ParseFloat(s) ==
    LET neg   == s # <<>> /\ Head(s) = "-"
        body  == IF s # <<>> /\ Head(s) \in {"-", "+"} THEN Tail(s) ELSE s
        dots  == {i \in 1..Len(body) : body[i] = "."}
        p     == IF dots = {} THEN Len(body) + 1 ELSE CHOOSE i \in dots : TRUE
        ip    == SubSeq(body, 1, p - 1)
        fp    == SubSeq(body, p + 1, Len(body))
        wf    == /\ Cardinality(dots) <= 1
                 /\ AllDigits(ip) /\ AllDigits(fp)
                 /\ Len(ip) + Len(fp) > 0
        mag   == DigitsVal(ip) * Pow10(Len(fp)) + DigitsVal(fp)
    IN  IF s = <<"n", "a", "n">> THEN [ok |-> TRUE, val |-> NaN]
        ELSE IF wf THEN [ok |-> TRUE, val |-> Num(IF neg THEN -mag ELSE mag, Pow10(Len(fp)))]
        ELSE [ok |-> FALSE, val |-> NaN]

(***************************************************************************)
(* Dates.  pd.to_datetime(format='%d.%m.%Y', errors='coerce') on a text:   *)
(* day and month of one or two digits, a year of four, separated by dots,  *)
(* naming a day of the calendar; anything else is NaT.  The value is the   *)
(* date's ordinal (days since 31.12.0000).                                 *)
(***************************************************************************)
IsLeap(y) == (y % 4 = 0 /\ y % 100 # 0) \/ y % 400 = 0

DaysInMonth(y, m) ==
    IF m = 2 THEN (IF IsLeap(y) THEN 29 ELSE 28)
    ELSE IF m \in {4, 6, 9, 11} THEN 30 ELSE 31

RECURSIVE DaysBeforeMonth(_, _)
DaysBeforeMonth(y, m) ==
    IF m = 1 THEN 0 ELSE DaysBeforeMonth(y, m - 1) + DaysInMonth(y, m - 1)

DaysBeforeYear(y) ==
    (y - 1) * 365 + ((y - 1) \div 4) - ((y - 1) \div 100) + ((y - 1) \div 400)

Ordinal(y, m, d) == DaysBeforeYear(y) + DaysBeforeMonth(y, m) + d

ParseDate(s) ==
    LET dots == {i \in 1..Len(s) : s[i] = "."}
    IN  IF Cardinality(dots) # 2 THEN NaN
        ELSE LET p1 == CHOOSE i \in dots : \A j \in dots : i <= j
                 p2 == CHOOSE i \in dots : \A j \in dots : j <= i
                 ds == SubSeq(s, 1, p1 - 1)
                 ms == SubSeq(s, p1 + 1, p2 - 1)
                 ys == SubSeq(s, p2 + 1, Len(s))
                 d  == DigitsVal(ds)
                 m  == DigitsVal(ms)
                 y  == DigitsVal(ys)
             IN  IF /\ AllDigits(ds) /\ Len(ds) \in 1..2
                    /\ AllDigits(ms) /\ Len(ms) \in 1..2
                    /\ AllDigits(ys) /\ Len(ys) = 4
                    /\ y >= 1 /\ m \in 1..12 /\ d \in 1..DaysInMonth(y, m)
                 THEN Int2Num(Ordinal(y, m, d))
                 ELSE NaN

(***************************************************************************)
(* Tables.                                                                 *)
(***************************************************************************)
\* the missing marker of a string column
NA == "<NA>"

\* pd.DataFrame()
EmptyTable == [cols |-> {}, rows |-> <<>>]

\* df.empty
IsEmpty(t) == t.cols = {} \/ t.rows = <<>>

\* row r with column c set to v (a new column when c is not one of r's)
SetCell(r, c, v) == [x \in (DOMAIN r) \cup {c} |-> IF x = c THEN v ELSE r[x]]

\* the sequences over S of length at most n
SeqsUpTo(S, n) == UNION {[1..k -> S] : k \in 0..n}

\* row r restricted to the columns cs
Project(r, cs) == [c \in cs |-> r[c]]

(***************************************************************************)
(* Dataset Loader: load_data and load_transport_data.                      *)
(*                                                                         *)
(* A file is [name, exists, readable, cols, rows]: readable = FALSE is a   *)
(* file pd.read_csv raises on.  Cost and date cells are texts (<<>> an     *)
(* empty cell, which read_csv reads as missing); cells of the other        *)
(* columns are what read_csv gives and pass through unchanged.             *)
(***************************************************************************)
TravelCost == "total price of stay"

TransportCost == "price per person ( EUR )"

\* read_csv, then .astype(str) on the cell: an empty cell is the text "nan"
AsStr(cell) == IF cell = <<>> THEN <<"n", "a", "n">> ELSE cell

\* .astype(str).str.replace(' ', '').str.replace(',', '.') on one cell
CleanText(cell) == Replace(Replace(AsStr(cell), " ", <<>>), ",", <<".">>)

\* .astype(float) of the cleaned column: raises when one cell does not parse
CleanCostColumn(rows, col) ==
    LET parsed == [i \in 1..Len(rows) |-> ParseFloat(CleanText(rows[i][col]))]
    IN  [ok   |-> \A i \in 1..Len(rows) : parsed[i].ok,
         rows |-> [i \in 1..Len(rows) |-> SetCell(rows[i], col, parsed[i].val)]]

\* pd.to_datetime(df[col], format='%d.%m.%Y', errors='coerce')
ParseDateColumn(rows, col) ==
    [i \in 1..Len(rows) |-> SetCell(rows[i], col, ParseDate(rows[i][col]))]

\* .astype(str) of a cell of a string column
StrOf(v) == IF v = NA THEN "nan" ELSE v

\* df['destination'] = df['location'].astype(str) + ', ' + df['country'].astype(str)
AddDestination(rows) ==
    [i \in 1..Len(rows) |->
        SetCell(rows[i], "destination",
                StrOf(rows[i]["location"]) \o ", " \o StrOf(rows[i]["country"]))]

\* what a loader gives its caller
Loaded(t) == [raised |-> FALSE, table |-> t, msgs |-> <<>>]

LoadFailed(kind) == [raised |-> FALSE, table |-> EmptyTable, msgs |-> <<kind>>]

Propagated == [raised |-> TRUE, table |-> EmptyTable, msgs |-> <<>>]

\* the statements of load_data's try block after read_csv: [exc, table]
TravelClean(f) ==
    LET c1 == IF TravelCost \in f.cols
              THEN CleanCostColumn(f.rows, TravelCost)
              ELSE [ok |-> TRUE, rows |-> f.rows]
        c2 == IF "check in" \in f.cols THEN ParseDateColumn(c1.rows, "check in") ELSE c1.rows
        c3 == IF "check out" \in f.cols THEN ParseDateColumn(c2, "check out") ELSE c2
        dest == {"country", "location"} \subseteq f.cols
        c4 == IF dest THEN AddDestination(c3) ELSE c3
    IN  [exc   |-> ~c1.ok,
         table |-> [cols |-> IF dest THEN f.cols \cup {"destination"} ELSE f.cols,
                    rows |-> c4]]

\* the loader without its except clause: the exception reaches the caller
GuardedNoExcept(exc, t, msg) == IF exc THEN Propagated ELSE Loaded(t)

\* except Exception as e: st.error(...); return pd.DataFrame()
Guarded(exc, t, msg) == IF exc THEN LoadFailed(msg) ELSE Loaded(t)

load_data(f) ==
    IF f.exists
    THEN LET body == TravelClean(f)
         IN  Guarded(~f.readable \/ body.exc, body.table, "error: Error loading data")
    ELSE LoadFailed("error: travel_data.csv file not found")

\* the statements of load_transport_data's try block after read_csv; the date
\* column, parsed with errors='coerce', is outside the columns modelled
TransportClean(f) ==
    LET c1 == IF TransportCost \in f.cols
              THEN CleanCostColumn(f.rows, TransportCost)
              ELSE [ok |-> TRUE, rows |-> f.rows]
    IN  [exc |-> ~c1.ok, table |-> [cols |-> f.cols, rows |-> c1.rows]]

\* read_csv itself raises FileNotFoundError on an absent file
load_transport_data(f) ==
    LET body == TransportClean(f)
    IN  Guarded(~f.exists \/ ~f.readable \/ body.exc, body.table,
                "error: Error loading transport data")

(***************************************************************************)
(* The files the loader specification draws from.                          *)
(***************************************************************************)
MaxFileRows == 2

TxtLocale == <<"1", " ", "2", "3", "4", ",", "5", "6">>

TxtAbc == <<"a", "b", "c">>

TxtHundred == <<"1", "0", "0">>

TxtTwoDots == <<"1", ".", "2", "3", "4", ",", "5">>

TxtJan1 == <<"0", "1", ".", "0", "1", ".", "2", "0", "2", "4">>

TxtJan5 == <<"0", "5", ".", "0", "1", ".", "2", "0", "2", "4">>

TxtFeb31 == <<"3", "1", ".", "0", "2", ".", "2", "0", "2", "4">>

TravelFileCols == {TravelCost, "check in", "check out", "country", "location"}

TravelFileRows ==
    { [c \in TravelFileCols |->
         CASE c = TravelCost  -> t[1]
           [] c = "check in"  -> t[2]
           [] c = "check out" -> t[3]
           [] c = "country"   -> t[4]
           [] OTHER           -> t[5]] :
      t \in { <<TxtLocale,  TxtJan1,  TxtJan5,  "France",  "Paris">>,
              <<TxtAbc,     TxtJan5,  TxtFeb31, "Germany", NA>>,
              <<<<>>,       <<>>,     TxtJan5,  NA,        "Berlin">>,
              <<TxtHundred, TxtFeb31, TxtJan1,  "France",  "Lyon">> } }

TransportFileCols == {TransportCost, "type of transport"}

TransportFileRows ==
    { [c \in TransportFileCols |-> IF c = TransportCost THEN t[1] ELSE t[2]] :
      t \in { <<TxtLocale,  <<"F", "l", "i", "g", "h", "t">>>>,
              <<TxtAbc,     <<"t", "r", "a", "i", "n">>>>,
              <<<<>>,       <<"F", "L", "I", "G", "H", "T">>>>,
              <<TxtTwoDots, <<"f", "l", "i", "g", "h", "t">>>> } }

FilesOf(name, colsOf, rowsOf) ==
    {[name |-> name, exists |-> FALSE, readable |-> FALSE, cols |-> {}, rows |-> <<>>]}
    \cup
    { [name |-> name, exists |-> TRUE, readable |-> rd, cols |-> cs,
       rows |-> [i \in DOMAIN rs |-> Project(rs[i], cs)]] :
      rd \in BOOLEAN, cs \in SUBSET colsOf, rs \in SeqsUpTo(rowsOf, MaxFileRows) }

NoFile == [name |-> "", exists |-> FALSE, readable |-> FALSE, cols |-> {}, rows |-> <<>>]

NoRet == [raised |-> FALSE]

(***************************************************************************)
(* The loader specification: a file is there (or not), and one of the two  *)
(* loaders reads it.                                                       *)
(***************************************************************************)
InitLoader ==
    /\ file \in FilesOf("travel_data.csv", TravelFileCols, TravelFileRows)
                \cup FilesOf("data_transport.csv", TransportFileCols, TransportFileRows)
    /\ df = EmptyTable
    /\ ret = NoRet
    /\ msgs = <<>>
    /\ pc = "start"

\* df = load_data()
LoadData ==
    /\ pc = "start"
    /\ file.name = "travel_data.csv"
    /\ LET r == load_data(file)
       IN  /\ ret' = [raised |-> r.raised, table |-> r.table]
           /\ df' = r.table
           /\ msgs' = msgs \o r.msgs
    /\ pc' = "load_data"
    /\ UNCHANGED file

\* df_transport = load_transport_data()
LoadTransportData ==
    /\ pc = "start"
    /\ file.name = "data_transport.csv"
    /\ LET r == load_transport_data(file)
       IN  /\ ret' = [raised |-> r.raised, table |-> r.table]
           /\ df' = r.table
           /\ msgs' = msgs \o r.msgs
    /\ pc' = "load_transport_data"
    /\ UNCHANGED file

NextLoader == LoadData \/ LoadTransportData

SpecLoader == InitLoader /\ [][NextLoader]_vars

\* the cost column a loader cleans
CostColOf(f) == IF f.name = "travel_data.csv" THEN TravelCost ELSE TransportCost

Loading == pc \in {"load_data", "load_transport_data"}

\* some step of reading or cleaning the file raises
LoadStepRaises(f) ==
    \/ ~f.exists
    \/ ~f.readable
    \/ /\ CostColOf(f) \in f.cols
       /\ \E i \in 1..Len(f.rows) : ~ParseFloat(CleanText(f.rows[i][CostColOf(f)])).ok

\* C1: neither loader lets an exception reach its caller; when the file is
\* absent or a step of reading or cleaning raises, the loader shows an error
\* and returns an empty table, and otherwise it shows nothing and returns a
\* table with the file's rows.
C1_LoadersNeverPropagate ==
    Loading =>
        /\ ~ret.raised
        /\ LoadStepRaises(file) =>
              /\ ret.table = EmptyTable
              /\ Len(msgs) = 1
              /\ SubSeq(msgs[1], 1, 6) = "error:"
        /\ ~LoadStepRaises(file) =>
              /\ msgs = <<>>
              /\ Len(ret.table.rows) = Len(file.rows)

\* C1 witness: load_data read a file in which a cost cell does not parse
C1_Witness ==
    /\ pc = "load_data"
    /\ file.exists /\ file.readable
    /\ LoadStepRaises(file)
    /\ ret.table = EmptyTable
    /\ msgs # <<>>

\* C2: a malformed cost text gives NaN in its own cell only: the loaded table
\* keeps every row of the file, a cell that parses holds its value ("1 234,56"
\* is 1234.56) and a cell that does not holds NaN.
C2_MalformedCostIsFieldLevel ==
    (Loading /\ file.exists /\ file.readable /\ CostColOf(file) \in file.cols) =>
        /\ Len(ret.table.rows) = Len(file.rows)
        /\ \A i \in 1..Len(file.rows) :
              LET txt == file.rows[i][CostColOf(file)]
                  p   == ParseFloat(CleanText(txt))
                  v   == ret.table.rows[i][CostColOf(file)]
              IN  /\ v = (IF p.ok THEN p.val ELSE NaN)
                  /\ txt = TxtLocale => v = Num(123456, 100)

(***************************************************************************)
(* Aggregator: create_summary_metrics.                                     *)
(*                                                                         *)
(* The result is [raised, metrics]: metrics is the mapping the function    *)
(* has built when it exits, a function from metric name to value, and      *)
(* raised tells that it exited with an exception (a KeyError) instead of   *)
(* returning the mapping.                                                  *)
(***************************************************************************)
\* the missing marker of a text column
NAText == <<"<NA>">>

UpperChars == <<"A", "B", "C", "D", "E", "F", "G", "H", "I", "J", "K", "L", "M",
                "N", "O", "P", "Q", "R", "S", "T", "U", "V", "W", "X", "Y", "Z">>

LowerChars == <<"a", "b", "c", "d", "e", "f", "g", "h", "i", "j", "k", "l", "m",
                "n", "o", "p", "q", "r", "s", "t", "u", "v", "w", "x", "y", "z">>

LowerChar(c) ==
    IF \E i \in 1..26 : UpperChars[i] = c
    THEN LowerChars[CHOOSE i \in 1..26 : UpperChars[i] = c]
    ELSE c

\* .str.lower() on one cell: a missing cell stays missing
Lower(txt) == IF txt = NAText THEN NAText ELSE [i \in 1..Len(txt) |-> LowerChar(txt[i])]

TxtWorkaway == <<"w", "o", "r", "k", "a", "w", "a", "y">>

\* the first name of the candidate list that is a column, or None
None == ""

RECURSIVE FirstMatch(_, _)
FirstMatch(cands, cols) ==
    IF cands = <<>> THEN None
    ELSE IF Head(cands) \in cols THEN Head(cands)
    ELSE FirstMatch(Tail(cands), cols)

cost_columns == <<TravelCost, "cost", "price", "amount", "total_cost", "expense">>

destination_columns == <<"destination", "city", "country", "location">>

type_columns == <<"platform", "travel_type", "type", "category", "mode">>

\* Series.sum(): the missing values are skipped
RECURSIVE SumCol(_, _)
SumCol(rows, c) ==
    IF rows = <<>> THEN Num(0, 1)
    ELSE LET rest == SumCol(Tail(rows), c)
         IN  IF IsNaN(Head(rows)[c]) THEN rest ELSE Add(Head(rows)[c], rest)

\* Series.nunique() of a string column: the distinct values that are not missing
NUnique(rows, c) == Cardinality({rows[i][c] : i \in 1..Len(rows)} \ {NA})

\* Series.min() and Series.max() of a column without missing values
RECURSIVE MinCol(_, _)
MinCol(rows, c) ==
    IF Len(rows) = 1 THEN rows[1][c]
    ELSE LET m == MinCol(Tail(rows), c)
         IN  IF Leq(rows[1][c], m) THEN rows[1][c] ELSE m

RECURSIVE MaxCol(_, _)
MaxCol(rows, c) ==
    IF Len(rows) = 1 THEN rows[1][c]
    ELSE LET m == MaxCol(Tail(rows), c)
         IN  IF Leq(m, rows[1][c]) THEN rows[1][c] ELSE m

\* df.dropna(subset=['check in', 'check out'])
BothDates(r) == ~IsNaN(r["check in"]) /\ ~IsNaN(r["check out"])

\* days_on_road with each date column cleaned of its own missing values only:
\* the earliest check-in and the latest check-out of any row
DaysMetricsAnyRow(t) ==
    IF {"check in", "check out"} \subseteq t.cols
    THEN LET HasIn(r)  == ~IsNaN(r["check in"])
             HasOut(r) == ~IsNaN(r["check out"])
             ins  == SelectSeq(t.rows, HasIn)
             outs == SelectSeq(t.rows, HasOut)
         IN  IF ins = <<>> \/ outs = <<>> THEN <<>>
             ELSE "days_on_road" :>
                     ((MaxCol(outs, "check out").n - MinCol(ins, "check in").n) + 1)
    ELSE <<>>

\* lines 52-60: the days_on_road entry, or no entry
DaysMetrics(t) ==
    IF {"check in", "check out"} \subseteq t.cols
    THEN LET df_dates == SelectSeq(t.rows, BothDates)
         IN  IF df_dates = <<>> THEN <<>>
             ELSE LET first_day == MinCol(df_dates, "check in")
                      last_day  == MaxCol(df_dates, "check out")
                  IN  "days_on_road" :> ((last_day.n - first_day.n) + 1)
    ELSE <<>>

\* line 63, reached with an accommodation column
PlacesMetrics(t) == "unique_places_stayed" :> NUnique(t.rows, "accommodation")

\* lines 66-67
CountryMetrics(t) ==
    IF "country" \in t.cols
    THEN "visited_countries" :> (NUnique(t.rows, "country") + 1)
    ELSE <<>>

\* f'€ {avg_cost}'
Euro(x) == [unit |-> "EUR", val |-> x]

\* lines 78-81, reached with a cost column and a days_on_road entry
CostMetrics(t, cost_col, days) ==
    LET total == SumCol(t.rows, cost_col)
        avg_cost == Round2(Div(Div(total, Int2Num(2)), Int2Num(days)))
    IN  ("total_cost of accommodation" :> total)
        @@ ("average per person per night" :> Euro(avg_cost))

\* value_counts().index[0]: the most frequent value that is not missing, the
\* first seen of them when several are; "N/A" when every value is missing
TopValue(rows, c) ==
    LET n == Len(rows)
        Count(v) == Cardinality({i \in 1..n : rows[i][c] = v})
        seen == {i \in 1..n : rows[i][c] # NA}
        best == {i \in seen : \A j \in seen : Count(rows[j][c]) <= Count(rows[i][c])}
    IN  IF seen = {} THEN "N/A"
        ELSE rows[CHOOSE i \in best : \A j \in best : i <= j][c]

\* lines 86-95
DestinationMetrics(t) ==
    LET dest_col == FirstMatch(destination_columns, t.cols)
    IN  IF dest_col # None
        THEN ("unique_destinations" :> NUnique(t.rows, dest_col))
             @@ ("top_destination" :> TopValue(t.rows, dest_col))
        ELSE <<>>

\* lines 98-110; the type column holds texts (object dtype), on which .str works
PlatformMetrics(t) ==
    LET type_col == FirstMatch(type_columns, t.cols)
        IsWorkaway(r) == Lower(r[type_col]) = TxtWorkaway
    IN  IF type_col # None /\ "accommodation" \in t.cols
        THEN "workaway_projects" :> NUnique(SelectSeq(t.rows, IsWorkaway), "accommodation")
        ELSE <<>>

Returned(m) == [raised |-> FALSE, metrics |-> m]

Raised(m) == [raised |-> TRUE, metrics |-> m]

\* df['accommodation'] of line 63 raises KeyError without the column
PlacesLookupFails(t) == "accommodation" \notin t.cols

\* metrics['days_on_road'] of line 80 raises KeyError without the entry
DaysLookupFails(m) == "days_on_road" \notin DOMAIN m

create_summary_metrics(t) ==
    IF IsEmpty(t) THEN Returned(<<>>)
    ELSE LET m1 == DaysMetrics(t)
         IN  IF PlacesLookupFails(t) THEN Raised(m1)
             ELSE LET m2 == m1 @@ PlacesMetrics(t) @@ CountryMetrics(t)
                      cost_col == FirstMatch(cost_columns, t.cols)
                  IN  IF cost_col # None /\ DaysLookupFails(m2)
                      THEN Raised(m2 @@ ("total_cost of accommodation" :> SumCol(t.rows, cost_col)))
                      ELSE LET m3 == IF cost_col # None
                                     THEN m2 @@ CostMetrics(t, cost_col, m2["days_on_road"])
                                     ELSE m2
                           IN  Returned(m3 @@ DestinationMetrics(t) @@ PlatformMetrics(t))

(***************************************************************************)
(* The metrics specification: a table with some of the columns, and        *)
(* create_summary_metrics is called on it.                                 *)
(***************************************************************************)
MaxRows == 2

\* the n-th of January 2024, as to_datetime gives it
Jan(n) == Int2Num(Ordinal(2024, 1, n))

MetricCols ==
    {"check in", "check out", "accommodation", "country", "destination",
     TravelCost, "cost", "platform"}

MetricRows ==
    { [c \in MetricCols |->
         CASE c = "check in"      -> t[1]
           [] c = "check out"     -> t[2]
           [] c = "accommodation" -> t[3]
           [] c = "country"       -> t[4]
           [] c = "destination"   -> t[5]
           [] c = TravelCost      -> t[6]
           [] c = "cost"          -> t[7]
           [] OTHER               -> t[8]] :
      t \in { <<Jan(1), Jan(5), "Hostel A", "France", "Paris, France",
                Num(100, 1), Num(7, 1), <<"W", "o", "r", "k", "a", "w", "a", "y">>>>,
              <<NaN, Jan(9), "Farm B", "Germany", "Berlin, Germany",
                NaN, Num(3, 1), TxtWorkaway>>,
              <<Jan(3), NaN, NA, NA, "nan, nan",
                Num(123456, 100), NaN, <<"b", "o", "o", "k", "i", "n", "g">>>>,
              <<Jan(6), Jan(5), "Hostel A", "France", "Lyon, France",
                Num(50, 1), Num(0, 1), NAText>> } }

TablesOf(colsOf, rowsOf, n) ==
    { [cols |-> cs, rows |-> [i \in DOMAIN rs |-> Project(rs[i], cs)]] :
      cs \in SUBSET colsOf, rs \in SeqsUpTo(rowsOf, n) }

InitMetrics ==
    /\ file = NoFile
    /\ df \in TablesOf(MetricCols, MetricRows, MaxRows)
    /\ ret = NoRet
    /\ msgs = <<>>
    /\ pc = "start"

\* metrics = create_summary_metrics(df)
CreateSummaryMetrics ==
    /\ pc = "start"
    /\ ret' = create_summary_metrics(df)
    /\ pc' = "create_summary_metrics"
    /\ UNCHANGED <<file, df, msgs>>

NextMetrics == CreateSummaryMetrics

SpecMetrics == InitMetrics /\ [][NextMetrics]_vars

MetricsDone == pc = "create_summary_metrics"

Has(name) == name \in DOMAIN ret.metrics

HasAny(cands) == \E i \in 1..Len(cands) : cands[i] \in df.cols

\* C3: on a table that is not empty, whatever columns it has,
\* create_summary_metrics returns a mapping in which each metric is present
\* exactly when its columns are (days_on_road only with both date columns).
C3_MetricsNeverRaise ==
    (MetricsDone /\ ~IsEmpty(df)) =>
        /\ ~ret.raised
        /\ Has("days_on_road") => {"check in", "check out"} \subseteq df.cols
        /\ Has("unique_places_stayed") <=> "accommodation" \in df.cols
        /\ Has("visited_countries") <=> "country" \in df.cols
        /\ Has("total_cost of accommodation") <=> HasAny(cost_columns)
        /\ Has("average per person per night") <=> HasAny(cost_columns)
        /\ Has("unique_destinations") <=> HasAny(destination_columns)
        /\ Has("top_destination") <=> HasAny(destination_columns)
        /\ Has("workaway_projects") <=>
              (HasAny(type_columns) /\ "accommodation" \in df.cols)

\* the values of column c that are not missing
Distinct(c) == {df.rows[i][c] : i \in 1..Len(df.rows)} \ {NA}

\* C4: in the mapping create_summary_metrics returns, unique_places_stayed is
\* the number of distinct accommodation names that are not missing and
\* visited_countries the number of distinct countries that are not missing.
C4_DistinctCounts ==
    (MetricsDone /\ ~IsEmpty(df) /\ ~ret.raised) =>
        /\ ret.metrics["unique_places_stayed"] = Cardinality(Distinct("accommodation"))
        /\ "country" \in df.cols =>
              ret.metrics["visited_countries"] = Cardinality(Distinct("country"))

\* the rows of df with a check-in and a check-out
RowsWithBothDates ==
    IF {"check in", "check out"} \subseteq df.cols
    THEN {i \in 1..Len(df.rows) : BothDates(df.rows[i])}
    ELSE {}

\* C5: days_on_road is taken over exactly the rows that have both dates: it is
\* the latest check-out minus the earliest check-in of those rows, in days,
\* plus 1 (5 for 01.01.2024 to 05.01.2024), and the mapping has no such entry
\* when no row has both dates.
C5_DaysOnRoad ==
    MetricsDone =>
        LET both == RowsWithBothDates
        IN  IF both = {} THEN ~Has("days_on_road")
            ELSE /\ Has("days_on_road")
                 /\ \E i, j \in both :
                       /\ \A k \in both :
                             /\ df.rows[i]["check in"].n <= df.rows[k]["check in"].n
                             /\ df.rows[k]["check out"].n <= df.rows[j]["check out"].n
                       /\ ret.metrics["days_on_road"] =
                             df.rows[j]["check out"].n - df.rows[i]["check in"].n + 1
                 /\ (/\ both = {1}
                     /\ df.rows[1]["check in"] = ParseDate(TxtJan1)
                     /\ df.rows[1]["check out"] = ParseDate(TxtJan5))
                    => ret.metrics["days_on_road"] = 5

\* C5 witness: a stay from 01.01.2024 to 05.01.2024 beside a row without a
\* check-in, whose later check-out does not count: 5 days
C5_Witness ==
    /\ MetricsDone
    /\ Len(df.rows) = 2
    /\ RowsWithBothDates = {1}
    /\ df.rows[1]["check in"] = ParseDate(TxtJan1)
    /\ df.rows[1]["check out"] = ParseDate(TxtJan5)
    /\ df.rows[2]["check out"] = Jan(9)
    /\ ret.metrics["days_on_road"] = 5

\* C6: with a cost column (the first of the candidates that is a column), the
\* mapping reports the column's sum and, as the average per person per night,
\* sum / 2 / days_on_road to the cent, or sum / 2 when there is no
\* days_on_road entry; the call does not fail.
C6_CostMetrics ==
    (MetricsDone /\ ~IsEmpty(df) /\ "accommodation" \in df.cols /\ HasAny(cost_columns)) =>
        LET cost_col == FirstMatch(cost_columns, df.cols)
            total    == SumCol(df.rows, cost_col)
            days     == IF Has("days_on_road") THEN ret.metrics["days_on_road"] ELSE 1
        IN  /\ ~ret.raised
            /\ ret.metrics["total_cost of accommodation"] = total
            /\ ret.metrics["average per person per night"] =
                  Euro(Round2(Div(Div(total, Int2Num(2)), Int2Num(days))))

(***************************************************************************)
(* Aggregator: adjust_nights and create_country_summary.                   *)
(*                                                                         *)
(* A cell of a column read as text is Text(n, d): the text of the number   *)
(* n/d, or, with d = 0, a text that is no number.                          *)
(***************************************************************************)
Text(n, d) == [k |-> "str", n |-> n, d |-> d]

\* pd.to_numeric(x, errors='coerce') on one cell
ToNumeric(x) ==
    IF x.k = "str" THEN (IF x.d = 0 THEN NaN ELSE Num(x.n, x.d)) ELSE x

\* df[c] = pd.to_numeric(df[c], errors='coerce') for each column of cs
RECURSIVE CoerceCols(_, _)
CoerceCols(rows, cs) ==
    IF cs = <<>> THEN rows
    ELSE LET c == Head(cs)
         IN  CoerceCols([i \in 1..Len(rows) |-> SetCell(rows[i], c, ToNumeric(rows[i][c]))],
                        Tail(cs))

\* lambda row of adjust_nights, halving unless the row is for two persons:
\* a row without a person count is halved too
AdjustedNightsUnlessTwo(row) ==
    IF EqualsInt(row["person"], 2)
    THEN row["nights"]
    ELSE Div(row["nights"], Int2Num(2))

\* lambda row: row['nights'] / 2 if pd.notna(row['person']) and row['person'] == 1
\*             else row['nights']
AdjustedNights(row) ==
    IF ~IsNaN(row["person"]) /\ EqualsInt(row["person"], 1)
    THEN Div(row["nights"], Int2Num(2))
    ELSE row["nights"]

\* adjust_nights: [table, msgs], the table a copy with the new column
adjust_nights(t) ==
    IF "person" \in t.cols
    THEN [table |-> [cols |-> t.cols \cup {"adjusted_nights"},
                     rows |-> [i \in 1..Len(t.rows) |->
                                 SetCell(t.rows[i], "adjusted_nights", AdjustedNights(t.rows[i]))]],
          msgs  |-> <<>>]
    ELSE [table |-> [cols |-> t.cols \cup {"adjusted_nights"},
                     rows |-> [i \in 1..Len(t.rows) |->
                                 SetCell(t.rows[i], "adjusted_nights", t.rows[i]["nights"])]],
          msgs  |-> <<"warning: Column 'person' not found">>]

\* the alphabetical order of the country names, by which groupby sorts its groups
SortedNames == <<"France", "Germany", "Italy">>

Rank(name) == CHOOSE i \in 1..Len(SortedNames) : SortedNames[i] = name

\* the distinct countries of rows, as groupby('country') orders them
RECURSIVE SortedKeys(_)
SortedKeys(S) ==
    IF S = {} THEN <<>>
    ELSE LET m == CHOOSE x \in S : \A y \in S : Rank(x) <= Rank(y)
         IN  <<m>> \o SortedKeys(S \ {m})

\* 'first': the first id of the rows that is not missing
RECURSIVE FirstId(_)
FirstId(rows) ==
    IF rows = <<>> THEN NaN
    ELSE IF ~IsNaN(Head(rows)["id"]) THEN Head(rows)["id"]
    ELSE FirstId(Tail(rows))

\* a before b for a sort by id that descends, the missing ids last
IdAfter(a, b) == ~IsNaN(a) /\ (IsNaN(b) \/ (a.n * b.d > b.n * a.d))

\* a before b for sort_values('id'): ascending, the missing ids last
IdBefore(a, b) == ~IsNaN(a) /\ (IsNaN(b) \/ (a.n * b.d < b.n * a.d))

\* sort_values('id'): g goes before the first group it is before
RECURSIVE InsertById(_, _)
InsertById(g, sorted) ==
    IF sorted = <<>> THEN <<g>>
    ELSE IF IdBefore(g["id"], Head(sorted)["id"]) THEN <<g>> \o sorted
    ELSE <<Head(sorted)>> \o InsertById(g, Tail(sorted))

RECURSIVE SortById(_)
SortById(groups) ==
    IF groups = <<>> THEN <<>>
    ELSE InsertById(groups[Len(groups)], SortById(SubSeq(groups, 1, Len(groups) - 1)))

\* df_adjusted[df_adjusted['total price of stay'] > 0], keeping the free stays too
PaidRowOrFree(r) == Positive(r[TravelCost]) \/ EqualsInt(r[TravelCost], 0)

\* df_adjusted[df_adjusted['total price of stay'] > 0]
PaidRow(r) == Positive(r[TravelCost])

\* total price / nights, without the division by two
AverageCostWhole(total, nights) == Div(total, nights)

\* grouped_df['total price of stay'] / grouped_df['adjusted_nights'] / 2
AverageCost(total, nights) == Div(Div(total, nights), Int2Num(2))

\* lines 252-276: the grouped table, one record per country
GroupedTable(rows, order_by) ==
    LET keys == SortedKeys({rows[i]["country"] : i \in 1..Len(rows)})
        Of(c) == LET In(r) == r["country"] = c IN SelectSeq(rows, In)
        paid  == SelectSeq(rows, PaidRow)
        PaidOf(c) == LET In(r) == r["country"] = c IN SelectSeq(paid, In)
        Group(c) ==
            LET nights   == SumCol(Of(c), "adjusted_nights")
                total    == SumCol(Of(c), TravelCost)
                merged   == IF PaidOf(c) = <<>> THEN NaN ELSE SumCol(PaidOf(c), "adjusted_nights")
                paid_n   == IF IsNaN(merged) THEN Num(0, 1) ELSE merged
            IN  [country |-> c,
                 adjusted_nights |-> nights,
                 total_price |-> total,
                 id |-> IF order_by = "id" THEN FirstId(Of(c)) ELSE NaN,
                 average_cost |-> AverageCost(total, nights),
                 adjusted_nights_paid |-> paid_n,
                 avg_cost_paid_night_person |->
                     IF Positive(paid_n) THEN Div(Div(total, paid_n), Int2Num(2))
                     ELSE Num(0, 1)]
        groups == [i \in 1..Len(keys) |-> Group(keys[i])]
        sorted == IF order_by = "id" THEN SortById(groups) ELSE groups
    IN  \* .drop('id', axis=1)
        [i \in 1..Len(sorted) |-> [f \in (DOMAIN sorted[i]) \ {"id"} |-> sorted[i][f]]]

\* lines 278-284: the table shown, its two averages rounded
ShownTable(grouped) ==
    [i \in 1..Len(grouped) |->
        [Country |-> grouped[i].country,
         Nights |-> grouped[i].adjusted_nights,
         TotalCost |-> grouped[i].total_price,
         AveragePersonNight |-> Round2(grouped[i].average_cost),
         PaidNights |-> grouped[i].adjusted_nights_paid,
         AverageCostPerPaidNightPerson |-> Round2(grouped[i].avg_cost_paid_night_person)]]

\* df.dropna(subset=['country', 'nights', 'total price of stay'])
ValidStay(r) == r["country"] # NA /\ ~IsNaN(r["nights"]) /\ ~IsNaN(r[TravelCost])

NothingShown(t, order_by, m) ==
    [shown |-> FALSE, order_by |-> order_by, df |-> t, msgs |-> m,
     grouped |-> <<>>, table |-> <<>>]

\* create_country_summary: what it shows, the messages, and df, the caller's
\* table as the call leaves it (the coerced columns are assigned to it).  The
\* to_numeric calls of the try block do not raise on the cells of a CSV table.
create_country_summary(t, order_by) ==
    LET required == {"country", "nights", TravelCost}
                    \cup (IF order_by = "id" THEN {"id"} ELSE {})
    IN  IF IsEmpty(t) THEN NothingShown(t, order_by, <<"error: The DataFrame is empty">>)
        ELSE IF ~(required \subseteq t.cols)
        THEN NothingShown(t, order_by, <<"error: Missing required columns">>)
        ELSE
        LET numeric == <<"nights", TravelCost>>
                       \o (IF order_by = "id" THEN <<"id">> ELSE <<>>)
                       \o (IF "person" \in t.cols THEN <<"person">> ELSE <<>>)
            coerced == [cols |-> t.cols, rows |-> CoerceCols(t.rows, numeric)]
            invalid == \E i \in 1..Len(coerced.rows) : ~ValidStay(coerced.rows[i])
            warn    == IF invalid THEN <<"warning: Some rows contain missing or invalid data">>
                       ELSE <<>>
            cleaned == SelectSeq(coerced.rows, ValidStay)
        IN  IF cleaned = <<>>
            THEN NothingShown(coerced, order_by,
                              warn \o <<"error: No valid data remains after cleaning">>)
            ELSE LET adj     == adjust_nights([cols |-> t.cols, rows |-> cleaned])
                     grouped == GroupedTable(adj.table.rows, order_by)
                 IN  [shown |-> TRUE, order_by |-> order_by, df |-> coerced,
                      msgs |-> warn \o adj.msgs,
                      grouped |-> grouped,
                      table |-> ShownTable(grouped)]

(***************************************************************************)
(* The adjust_nights specification: adjust_nights is called on a table     *)
(* with a nights column, with or without a person column.  It is called    *)
(* after the numeric coercion and the check that rows remain, so nights    *)
(* holds numbers and the table has rows.                                   *)
(***************************************************************************)
MaxAdjustRows == 2

AdjustRows ==
    [{"nights", "person"} ->
        {Int2Num(10), Int2Num(5), NaN, Int2Num(1), Int2Num(2), Text(1, 1)}]

AdjustTables ==
    { [cols |-> cs, rows |-> [i \in DOMAIN rs |-> Project(rs[i], cs)]] :
      cs \in {{"nights"}, {"nights", "person"}},
      rs \in SeqsUpTo({r \in AdjustRows : r["nights"].k # "str"}, MaxAdjustRows) \ {<<>>} }

InitAdjust ==
    /\ file = NoFile
    /\ df \in AdjustTables
    /\ ret = NoRet
    /\ msgs = <<>>
    /\ pc = "start"

\* df_adjusted = adjust_nights(df)
AdjustNights ==
    /\ pc = "start"
    /\ LET r == adjust_nights(df)
       IN  /\ ret' = [raised |-> FALSE, table |-> r.table]
           /\ msgs' = msgs \o r.msgs
    /\ pc' = "adjust_nights"
    /\ UNCHANGED <<file, df>>

NextAdjust == AdjustNights

SpecAdjust == InitAdjust /\ [][NextAdjust]_vars

\* x is half of y
IsHalfOf(x, y) ==
    IF y.k = "num" THEN x.k = "num" /\ 2 * x.n * y.d = y.n * x.d ELSE x = y

\* C7: adjusted_nights is nights / 2 in exactly the rows whose person is 1 and
\* nights itself in every other row (person 2 or another value, person missing)
\* and in every row when there is no person column; 10 nights give 5 for one
\* person and 10 otherwise.
C7_AdjustedNights ==
    pc = "adjust_nights" =>
        /\ Len(ret.table.rows) = Len(df.rows)
        /\ \A i \in 1..Len(df.rows) :
              LET nights   == df.rows[i]["nights"]
                  adjusted == ret.table.rows[i]["adjusted_nights"]
                  single   == "person" \in df.cols /\ df.rows[i]["person"] = Int2Num(1)
              IN  /\ single => IsHalfOf(adjusted, nights)
                  /\ ~single => adjusted = nights
                  /\ nights = Int2Num(10) =>
                        adjusted = (IF single THEN Int2Num(5) ELSE Int2Num(10))
                  /\ \A c \in df.cols : ret.table.rows[i][c] = df.rows[i][c]

\* C7 witness: 10 nights for one person beside 10 nights without a person count
C7_Witness ==
    /\ pc = "adjust_nights"
    /\ Len(df.rows) = 2
    /\ "person" \in df.cols
    /\ df.rows[1] = [nights |-> Int2Num(10), person |-> Int2Num(1)]
    /\ df.rows[2] = [nights |-> Int2Num(10), person |-> NaN]
    /\ ret.table.rows[1]["adjusted_nights"] = Int2Num(5)
    /\ ret.table.rows[2]["adjusted_nights"] = Int2Num(10)

(***************************************************************************)
(* The country summary specification: a table of stays, and                *)
(* create_country_summary is called on it, ordering by id or not.          *)
(***************************************************************************)
MaxStayRows == 3

StayCols == {"country", "nights", TravelCost, "person", "id"}

StayRows ==
    { [c \in StayCols |->
         CASE c = "country"  -> t[1]
           [] c = "nights"   -> t[2]
           [] c = TravelCost -> t[3]
           [] c = "person"   -> t[4]
           [] OTHER          -> t[5]] :
      t \in { <<"France",  Int2Num(2),  Int2Num(100), Int2Num(2), Int2Num(1)>>,
              <<"France",  Int2Num(3),  Int2Num(150), Int2Num(2), Int2Num(2)>>,
              <<"Germany", Int2Num(5),  Int2Num(400), Int2Num(1), Int2Num(3)>>,
              <<"Germany", Int2Num(10), Int2Num(0),   NaN,        Int2Num(0)>>,
              <<"Italy",   Text(0, 0),  Int2Num(50),  Int2Num(1), NaN>>,
              <<"Italy",   Text(10, 1), Int2Num(0),   Text(1, 1), Int2Num(4)>>,
              <<NA,        Int2Num(1),  NaN,          Int2Num(1), Int2Num(5)>>,
              <<"Italy",   Int2Num(0),  Int2Num(50),  Int2Num(2), Int2Num(6)>>,
              <<"Germany", Int2Num(1),  Int2Num(20),  Int2Num(2), NaN>> } }

StayColSets ==
    {StayCols, StayCols \ {"person"}, StayCols \ {"id"}, StayCols \ {"nights"}}

StayTables ==
    { [cols |-> cs, rows |-> [i \in DOMAIN rs |-> Project(rs[i], cs)]] :
      cs \in StayColSets, rs \in SeqsUpTo(StayRows, MaxStayRows) }

InitCountry ==
    /\ file = NoFile
    /\ df \in StayTables
    /\ ret = NoRet
    /\ msgs = <<>>
    /\ pc = "start"

\* create_country_summary(df, order_by)
CreateCountrySummary ==
    /\ pc = "start"
    /\ \E order_by \in {"id", "country"} :
          LET r == create_country_summary(df, order_by)
          IN  /\ ret' = [raised |-> FALSE, shown |-> r.shown, order_by |-> r.order_by,
                         grouped |-> r.grouped, table |-> r.table]
              /\ df' = r.df
              /\ msgs' = msgs \o r.msgs
    /\ pc' = "create_country_summary"
    /\ UNCHANGED file

NextCountry == CreateCountrySummary

SpecCountry == InitCountry /\ [][NextCountry]_vars

SummaryShown == pc = "create_country_summary" /\ ret.shown

\* the rows of df, as the call left it, that the cleaning keeps
CleanStays ==
    {i \in 1..Len(df.rows) :
        /\ df.rows[i]["country"] # NA
        /\ df.rows[i]["nights"].k = "num"
        /\ df.rows[i][TravelCost].k = "num"}

\* the sum of f over the finite set S
RECURSIVE SumOver(_, _)
SumOver(S, f) ==
    IF S = {} THEN 0
    ELSE LET x == CHOOSE y \in S : TRUE IN f[x] + SumOver(S \ {x}, f)

\* the nights of row i counted in half nights: once for one person, twice otherwise
HalfNights(i) ==
    IF "person" \in df.cols /\ df.rows[i]["person"] = Int2Num(1)
    THEN df.rows[i]["nights"].n
    ELSE 2 * df.rows[i]["nights"].n

StaysIn(c) == {i \in CleanStays : df.rows[i]["country"] = c}

HalfNightsIn(c) == SumOver(StaysIn(c), [i \in StaysIn(c) |-> HalfNights(i)])

PriceIn(c) == SumOver(StaysIn(c), [i \in StaysIn(c) |-> df.rows[i][TravelCost].n])

PaidStaysIn(c) == {i \in StaysIn(c) : df.rows[i][TravelCost].n > 0}

PaidHalfNightsIn(c) == SumOver(PaidStaysIn(c), [i \in PaidStaysIn(c) |-> HalfNights(i)])

\* the stays of the end-to-end scenario: France 2 and 3 nights for 100 and 150,
\* two persons; Germany 5 nights for 400, one person
ScenarioStays ==
    /\ Len(df.rows) = 3
    /\ "person" \in df.cols
    /\ \A i \in 1..3 :
          /\ df.rows[i]["country"] = <<"France", "France", "Germany">>[i]
          /\ df.rows[i]["nights"] = Int2Num(<<2, 3, 5>>[i])
          /\ df.rows[i][TravelCost] = Int2Num(<<100, 150, 400>>[i])
          /\ df.rows[i]["person"] = Int2Num(<<2, 2, 1>>[i])

\* the record of country c in the grouped table
GroupOf(c) == ret.grouped[CHOOSE k \in 1..Len(ret.grouped) : ret.grouped[k].country = c]

\* C8: the summary has one row for each country of the cleaned table and no
\* other; its nights are the sum of the adjusted nights and its cost the sum of
\* the prices of that country's rows, and average_cost is cost / nights / 2.
\* The scenario gives France (5, 250, 25) and Germany (2.5, 400, 80).
C8_CountrySummary ==
    SummaryShown =>
        /\ {ret.grouped[k].country : k \in 1..Len(ret.grouped)}
              = {df.rows[i]["country"] : i \in CleanStays}
        /\ Len(ret.grouped) = Cardinality({df.rows[i]["country"] : i \in CleanStays})
        /\ Len(ret.table) = Len(ret.grouped)
        /\ \A k \in 1..Len(ret.grouped) :
              LET g == ret.grouped[k]
                  c == g.country
              IN  /\ g.adjusted_nights = Num(HalfNightsIn(c), 2)
                  /\ g.total_price = Int2Num(PriceIn(c))
                  /\ HalfNightsIn(c) # 0 => g.average_cost = Num(PriceIn(c), HalfNightsIn(c))
                  /\ HalfNightsIn(c) = 0 => g.average_cost.k # "num"
                  /\ ret.table[k].Country = c
                  /\ ret.table[k].Nights = g.adjusted_nights
                  /\ ret.table[k].TotalCost = g.total_price
        /\ ScenarioStays =>
              /\ Len(ret.grouped) = 2
              /\ GroupOf("France").adjusted_nights = Int2Num(5)
              /\ GroupOf("France").total_price = Int2Num(250)
              /\ GroupOf("France").average_cost = Int2Num(25)
              /\ GroupOf("Germany").adjusted_nights = Num(5, 2)
              /\ GroupOf("Germany").total_price = Int2Num(400)
              /\ GroupOf("Germany").average_cost = Int2Num(80)

\* C8 witness: the end-to-end scenario, summarised
C8_Witness ==
    /\ SummaryShown
    /\ ScenarioStays
    /\ GroupOf("France").average_cost = Int2Num(25)
    /\ GroupOf("Germany").average_cost = Int2Num(80)

\* C9: for every country of the summary, paid_nights is the sum of the adjusted
\* nights of its rows with a price above 0 (0 without such a row), and
\* avg_cost_paid_night_person is the country's total price / paid_nights / 2
\* when paid_nights > 0, and 0 otherwise.
C9_PaidNights ==
    SummaryShown =>
        \A k \in 1..Len(ret.grouped) :
            LET g == ret.grouped[k]
                c == g.country
            IN  /\ g.adjusted_nights_paid = Num(PaidHalfNightsIn(c), 2)
                /\ PaidStaysIn(c) = {} => g.adjusted_nights_paid = Int2Num(0)
                /\ g.avg_cost_paid_night_person =
                      (IF PaidHalfNightsIn(c) > 0
                       THEN Num(PriceIn(c), PaidHalfNightsIn(c))
                       ELSE Int2Num(0))
                /\ ret.table[k].PaidNights = g.adjusted_nights_paid

\* C9 witness: a country with a paid and a free stay beside a country with
\* free stays only
C9_Witness ==
    /\ SummaryShown
    /\ \E c \in {ret.grouped[k].country : k \in 1..Len(ret.grouped)} :
          /\ PaidStaysIn(c) # {}
          /\ PaidStaysIn(c) # StaysIn(c)
          /\ GroupOf(c).adjusted_nights_paid # GroupOf(c).adjusted_nights
          /\ Positive(GroupOf(c).avg_cost_paid_night_person)
    /\ \E c \in {ret.grouped[k].country : k \in 1..Len(ret.grouped)} :
          /\ PaidStaysIn(c) = {}
          /\ GroupOf(c).avg_cost_paid_night_person = Int2Num(0)

(***************************************************************************)
(* Geo Resolver: the country lookup of create_world_map.                   *)
(***************************************************************************)
\* country_to_iso, the pairs of the dictionary in the order written
IsoPairs ==
    << <<"Afghanistan", "AFG">>, <<"Albania", "ALB">>, <<"Algeria", "DZA">>,
       <<"Andorra", "AND">>, <<"Angola", "AGO">>, <<"Antigua and Barbuda", "ATG">>,
       <<"Argentina", "ARG">>, <<"Armenia", "ARM">>, <<"Australia", "AUS">>,
       <<"austria", "AUT">>, <<"Azerbaijan", "AZE">>, <<"Bahamas", "BHS">>,
       <<"Bahrain", "BHR">>, <<"Bangladesh", "BGD">>, <<"Barbados", "BRB">>,
       <<"Belarus", "BLR">>, <<"Belgium", "BEL">>, <<"Belize", "BLZ">>, <<"Benin", "BEN">>,
       <<"Bhutan", "BTN">>, <<"Bolivia", "BOL">>, <<"Bosnia and Herzegovina", "BIH">>,
       <<"Botswana", "BWA">>, <<"Brazil", "BRA">>, <<"Brunei", "BRN">>, <<"bulgaria", "BGR">>,
       <<"Burkina Faso", "BFA">>, <<"Burundi", "BDI">>, <<"Cabo Verde", "CPV">>,
       <<"Cambodia", "KHM">>, <<"Cameroon", "CMR">>, <<"Canada", "CAN">>,
       <<"Central African Republic", "CAF">>, <<"Chad", "TCD">>, <<"Chile", "CHL">>,
       <<"china", "CHN">>, <<"Colombia", "COL">>, <<"Comoros", "COM">>,
       <<"Congo (Brazzaville)", "COG">>, <<"Congo (Kinshasa)", "COD">>, <<"Costa Rica", "CRI">>,
       <<"Croatia", "HRV">>, <<"Cuba", "CUB">>, <<"Cyprus", "CYP">>, <<"Czechia", "CZE">>,
       <<"Czech Republic", "CZE">>, <<"Denmark", "DNK">>, <<"Djibouti", "DJI">>,
       <<"Dominica", "DMA">>, <<"Dominican Republic", "DOM">>, <<"Ecuador", "ECU">>,
       <<"Egypt", "EGY">>, <<"El Salvador", "SLV">>, <<"Equatorial Guinea", "GNQ">>,
       <<"Eritrea", "ERI">>, <<"Estonia", "EST">>, <<"Eswatini", "SWZ">>, <<"Ethiopia", "ETH">>,
       <<"Fiji", "FJI">>, <<"Finland", "FIN">>, <<"France", "FRA">>, <<"Gabon", "GAB">>,
       <<"Gambia", "GMB">>, <<"Georgia", "GEO">>, <<"Germany", "DEU">>, <<"Ghana", "GHA">>,
       <<"Greece", "GRC">>, <<"Grenada", "GRD">>, <<"Guatemala", "GTM">>, <<"Guinea", "GIN">>,
       <<"Guinea-Bissau", "GNB">>, <<"Guyana", "GUY">>, <<"Haiti", "HTI">>,
       <<"Honduras", "HND">>, <<"hungary", "HUN">>, <<"Iceland", "ISL">>, <<"India", "IND">>,
       <<"Indonesia", "IDN">>, <<"Iran", "IRN">>, <<"Iraq", "IRQ">>, <<"Ireland", "IRL">>,
       <<"Israel", "ISR">>, <<"Italy", "ITA">>, <<"Jamaica", "JAM">>, <<"japan", "JPN">>,
       <<"Jordan", "JOR">>, <<"Kazakhstan", "KAZ">>, <<"Kenya", "KEN">>, <<"Kiribati", "KIR">>,
       <<"Kuwait", "KWT">>, <<"Kyrgyzstan", "KGZ">>, <<"laos", "LAO">>, <<"Latvia", "LVA">>,
       <<"Lebanon", "LBN">>, <<"Lesotho", "LSO">>, <<"Liberia", "LBR">>, <<"Libya", "LBY">>,
       <<"Liechtenstein", "LIE">>, <<"Lithuania", "LTU">>, <<"Luxembourg", "LUX">>,
       <<"Madagascar", "MDG">>, <<"Malawi", "MWI">>, <<"Malaysia", "MYS">>,
       <<"Maldives", "MDV">>, <<"Mali", "MLI">>, <<"Malta", "MLT">>,
       <<"Marshall Islands", "MHL">>, <<"Mauritania", "MRT">>, <<"Mauritius", "MUS">>,
       <<"Mexico", "MEX">>, <<"Micronesia", "FSM">>, <<"Moldova", "MDA">>, <<"Monaco", "MCO">>,
       <<"mongolia", "MNG">>, <<"Montenegro", "MNE">>, <<"Morocco", "MAR">>,
       <<"Mozambique", "MOZ">>, <<"Myanmar", "MMR">>, <<"Namibia", "NAM">>, <<"Nauru", "NRU">>,
       <<"Nepal", "NPL">>, <<"Netherlands", "NLD">>, <<"new zealand", "NZL">>,
       <<"Nicaragua", "NIC">>, <<"Niger", "NER">>, <<"Nigeria", "NGA">>,
       <<"North Korea", "PRK">>, <<"North Macedonia", "MKD">>, <<"norway", "NOR">>,
       <<"oman", "OMN">>, <<"Pakistan", "PAK">>, <<"Palau", "PLW">>, <<"Palestine", "PSE">>,
       <<"Panama", "PAN">>, <<"Papua New Guinea", "PNG">>, <<"Paraguay", "PRY">>,
       <<"Peru", "PER">>, <<"Philippines", "PHL">>, <<"poland", "POL">>, <<"Portugal", "PRT">>,
       <<"Qatar", "QAT">>, <<"Romania", "ROU">>, <<"Russia", "RUS">>, <<"Rwanda", "RWA">>,
       <<"Saint Kitts and Nevis", "KNA">>, <<"Saint Lucia", "LCA">>,
       <<"Saint Vincent and the Grenadines", "VCT">>, <<"Samoa", "WSM">>,
       <<"San Marino", "SMR">>, <<"Sao Tome and Principe", "STP">>, <<"Saudi Arabia", "SAU">>,
       <<"Senegal", "SEN">>, <<"Serbia", "SRB">>, <<"Seychelles", "SYC">>,
       <<"Sierra Leone", "SLE">>, <<"Singapore", "SGP">>, <<"slovakia", "SVK">>,
       <<"Slovenia", "SVN">>, <<"Solomon Islands", "SLB">>, <<"Somalia", "SOM">>,
       <<"South Africa", "ZAF">>, <<"south korea", "KOR">>, <<"South Sudan", "SSD">>,
       <<"Spain", "ESP">>, <<"sri lanka", "LKA">>, <<"Sudan", "SDN">>, <<"Suriname", "SUR">>,
       <<"sweden", "SWE">>, <<"Switzerland", "CHE">>, <<"Syria", "SYR">>, <<"Taiwan", "TWN">>,
       <<"Tajikistan", "TJK">>, <<"Tanzania", "TZA">>, <<"Thailand", "THA">>,
       <<"Timor-Leste", "TLS">>, <<"Togo", "TGO">>, <<"Tonga", "TON">>,
       <<"Trinidad and Tobago", "TTO">>, <<"Tunisia", "TUN">>, <<"turkey", "TUR">>,
       <<"Turkmenistan", "TKM">>, <<"Tuvalu", "TUV">>, <<"Uganda", "UGA">>,
       <<"Ukraine", "UKR">>, <<"united arab emirates", "ARE">>, <<"United Kingdom", "GBR">>,
       <<"United States", "USA">>, <<"USA", "USA">>, <<"Uruguay", "URY">>,
       <<"Uzbekistan", "UZB">>, <<"Vanuatu", "VUT">>, <<"Vatican City", "VAT">>,
       <<"Venezuela", "VEN">>, <<"Vietnam", "VNM">>, <<"Yemen", "YEM">>, <<"Zambia", "ZMB">>,
       <<"Zimbabwe", "ZWE">> >>

\* Series.map(country_to_iso) on one cell: the code, or missing for a name that
\* is no key of the dictionary
country_to_iso(name) ==
    IF \E p \in 1..Len(IsoPairs) : IsoPairs[p][1] = name
    THEN IsoPairs[CHOOSE p \in 1..Len(IsoPairs) : IsoPairs[p][1] = name][2]
    ELSE NA

\* drop_duplicates(subset=['iso_alpha']) keeping the last row of each code
RECURSIVE DropDuplicatesKeepLast(_)
DropDuplicatesKeepLast(rows) ==
    IF rows = <<>> THEN <<>>
    ELSE LET last == rows[Len(rows)]
             Other(r) == r["iso_alpha"] # last["iso_alpha"]
         IN  DropDuplicatesKeepLast(SelectSeq(SubSeq(rows, 1, Len(rows) - 1), Other))
             \o <<last>>

\* drop_duplicates(subset=['iso_alpha']): the first row of each code is kept
RECURSIVE DropDuplicatesRec(_)
DropDuplicatesRec(rows) ==
    IF rows = <<>> THEN <<>>
    ELSE LET Other(r) == r["iso_alpha"] # Head(rows)["iso_alpha"]
         IN  <<Head(rows)>> \o DropDuplicatesRec(SelectSeq(Tail(rows), Other))

DropDuplicates(rows) == DropDuplicatesRec(rows)

\* lines 161-163: df_countries
ResolvedCountries(t) ==
    LET HasCountry(r) == r["country"] # NA
        named  == SelectSeq(t.rows, HasCountry)
        mapped == [i \in 1..Len(named) |->
                      SetCell(named[i], "iso_alpha", country_to_iso(named[i]["country"]))]
        HasIso(r) == r["iso_alpha"] # NA
    IN  DropDuplicates(SelectSeq(mapped, HasIso))

\* create_world_map: the rows handed to the map, or a warning and no map
create_world_map(t) ==
    IF "country" \notin t.cols
    THEN [shown |-> FALSE, rows |-> <<>>, msgs |-> <<"warning: No 'country' column found">>]
    ELSE LET df_countries == ResolvedCountries(t)
         IN  IF df_countries = <<>>
             THEN [shown |-> FALSE, rows |-> <<>>,
                   msgs |-> <<"warning: No valid countries found">>]
             ELSE [shown |-> TRUE,
                   rows  |-> [i \in 1..Len(df_countries) |->
                                 SetCell(df_countries[i], "is_visited", "Visited")],
                   msgs  |-> <<>>]

(***************************************************************************)
(* The world map specification: a table of country names, and              *)
(* create_world_map is called on it.                                       *)
(***************************************************************************)
MaxGeoRows == 3

GeoNames ==
    {"France", "francia", "Germany", "austria", "Austria", "Czechia", "Czech Republic", NA}

GeoTables ==
    { [cols |-> {"country"}, rows |-> rs] :
      rs \in SeqsUpTo([{"country"} -> GeoNames], MaxGeoRows) }
    \cup
    { [cols |-> {"nights"}, rows |-> rs] :
      rs \in SeqsUpTo([{"nights"} -> {Int2Num(2)}], MaxGeoRows) }

InitGeo ==
    /\ file = NoFile
    /\ df \in GeoTables
    /\ ret = NoRet
    /\ msgs = <<>>
    /\ pc = "start"

\* create_world_map(df)
CreateWorldMap ==
    /\ pc = "start"
    /\ LET r == create_world_map(df)
       IN  /\ ret' = [raised |-> FALSE, shown |-> r.shown, rows |-> r.rows]
           /\ msgs' = msgs \o r.msgs
    /\ pc' = "create_world_map"
    /\ UNCHANGED <<file, df>>

NextGeo == CreateWorldMap

SpecGeo == InitGeo /\ [][NextGeo]_vars

\* name is written, letter for letter, as a key of the dictionary
IsKey(name) == \E p \in 1..Len(IsoPairs) : IsoPairs[p][1] = name

CodeOf(name) == IsoPairs[CHOOSE p \in 1..Len(IsoPairs) : IsoPairs[p][1] = name][2]

\* the rows of df that resolve, each the first of its code
FirstResolved ==
    IF "country" \notin df.cols THEN {}
    ELSE {i \in 1..Len(df.rows) :
            /\ IsKey(df.rows[i]["country"])
            /\ \A j \in 1..(i - 1) :
                  IsKey(df.rows[j]["country"]) =>
                      CodeOf(df.rows[j]["country"]) # CodeOf(df.rows[i]["country"])}

\* the k-th smallest element of the set S of numbers
KthOf(S, k) == CHOOSE i \in S : Cardinality({j \in S : j < i}) = k - 1

\* C10: the resolver keeps exactly the rows whose country is a key of the
\* lookup table, letter case included ("France" gives "FRA"), one per ISO-3
\* code and that the first row resolving to the code, in table order; missing
\* and unmapped names ("francia") are left out without an error.
C10_GeoResolver ==
    pc = "create_world_map" =>
        /\ ~ret.raised
        /\ Len(ret.rows) = Cardinality(FirstResolved)
        /\ ret.shown <=> FirstResolved # {}
        /\ \A k \in 1..Len(ret.rows) :
              LET i == KthOf(FirstResolved, k)
              IN  /\ ret.rows[k]["country"] = df.rows[i]["country"]
                  /\ ret.rows[k]["iso_alpha"] = CodeOf(df.rows[i]["country"])
                  /\ ret.rows[k]["country"] = "France" => ret.rows[k]["iso_alpha"] = "FRA"
                  /\ ret.rows[k]["country"] \notin {"francia", "Austria", NA}
        /\ \A m \in 1..Len(msgs) : SubSeq(msgs[m], 1, 6) # "error:"

\* C10 witness: "francia" is left out, "France" resolves, and of two names of
\* one code the first is kept
C10_Witness ==
    /\ pc = "create_world_map"
    /\ "country" \in df.cols
    /\ Len(df.rows) = 3
    /\ df.rows[1]["country"] = "francia"
    /\ df.rows[2]["country"] = "Czechia"
    /\ df.rows[3]["country"] = "Czech Republic"
    /\ Len(ret.rows) = 1
    /\ ret.rows[1]["country"] = "Czechia"
    /\ ret.rows[1]["iso_alpha"] = "CZE"

(***************************************************************************)
(* Flight Metrics: create_flight_metrics.                                  *)
(*                                                                         *)
(* The result is [raised, reported, count, table, total, shown_total]:     *)
(* reported tells that the count, the table and the total were shown;      *)
(* raised that the call ended with the KeyError of a missing column.       *)
(***************************************************************************)
TransportType == "type of transport"

TxtFlight == <<"f", "l", "i", "g", "h", "t">>

\* the row filter of a comparison without .str.lower()
IsFlightSameCase(r) == r[TransportType] = TxtFlight

\* the row filter of a test for a type that starts with "flight"
IsFlightPrefix(r) ==
    LET low == Lower(r[TransportType])
    IN  Len(low) >= Len(TxtFlight) /\ SubSeq(low, 1, Len(TxtFlight)) = TxtFlight

\* df['type of transport'].str.lower() == "flight", on one row
IsFlight(r) == Lower(r[TransportType]) = TxtFlight

NoFlightReport(raised, m) ==
    [raised |-> raised, reported |-> FALSE, count |-> 0, table |-> <<>>,
     total |-> NaN, shown_total |-> NaN, msgs |-> m]

create_flight_metrics(t) ==
    IF IsEmpty(t) THEN NoFlightReport(FALSE, <<"warning: No transport data available.">>)
    ELSE IF TransportType \notin t.cols THEN NoFlightReport(TRUE, <<>>)
    ELSE LET flight_df == SelectSeq(t.rows, IsFlight)
         IN  IF flight_df = <<>>
             THEN NoFlightReport(FALSE, <<"info: No flight records found in transport data.">>)
             ELSE IF ~({"from", "to", TransportCost} \subseteq t.cols)
             THEN \* st.metric has shown the count when line 49 raises
                  [raised |-> TRUE, reported |-> FALSE, count |-> Len(flight_df),
                   table |-> <<>>, total |-> NaN, shown_total |-> NaN, msgs |-> <<>>]
             ELSE LET total_price == SumCol(flight_df, TransportCost)
                  IN  [raised |-> FALSE, reported |-> TRUE,
                       count |-> Len(flight_df),
                       table |-> [i \in 1..Len(flight_df) |->
                                     Project(flight_df[i], {"from", "to", TransportCost})],
                       total |-> total_price,
                       \* f"{total_price:,.2f}"
                       shown_total |-> Round2(total_price),
                       msgs |-> <<>>]

(***************************************************************************)
(* The flights specification: a transport table as load_transport_data     *)
(* gives it (empty after a failed load), and create_flight_metrics is      *)
(* called on it.                                                           *)
(***************************************************************************)
MaxLegRows == 2

LegCols == {TransportType, "from", "to", TransportCost}

LegTypes ==
    { <<"F", "l", "i", "g", "h", "t">>, <<"F", "L", "I", "G", "H", "T">>, TxtFlight,
      <<"t", "r", "a", "i", "n">>, <<"f", "l", "i", "g", "h", "t", "s">>, NAText }

LegRows ==
    { [c \in LegCols |->
         CASE c = TransportType -> ty
           [] c = TransportCost -> pr
           [] c = "from"        -> "Vienna"
           [] OTHER             -> "Bangkok"] :
      ty \in LegTypes, pr \in {Num(123456, 100), Int2Num(100), NaN} }

LegTables ==
    {EmptyTable}
    \cup
    { [cols |-> cs, rows |-> [i \in DOMAIN rs |-> Project(rs[i], cs)]] :
      cs \in {LegCols, LegCols \ {TransportType}, LegCols \ {"from"}},
      rs \in SeqsUpTo(LegRows, MaxLegRows) }

InitFlights ==
    /\ file = NoFile
    /\ df \in LegTables
    /\ ret = NoRet
    /\ msgs = <<>>
    /\ pc = "start"

\* create_flight_metrics(df_transport)
CreateFlightMetrics ==
    /\ pc = "start"
    /\ LET r == create_flight_metrics(df)
       IN  /\ ret' = [raised |-> r.raised, reported |-> r.reported, count |-> r.count,
                      table |-> r.table, total |-> r.total, shown_total |-> r.shown_total]
           /\ msgs' = msgs \o r.msgs
    /\ pc' = "create_flight_metrics"
    /\ UNCHANGED <<file, df>>

NextFlights == CreateFlightMetrics

SpecFlights == InitFlights /\ [][NextFlights]_vars

FlightsDone == pc = "create_flight_metrics"

\* the text spells "flight", each letter in either case
SpellsFlight(txt) ==
    /\ Len(txt) = 6
    /\ txt[1] \in {"f", "F"} /\ txt[2] \in {"l", "L"} /\ txt[3] \in {"i", "I"}
    /\ txt[4] \in {"g", "G"} /\ txt[5] \in {"h", "H"} /\ txt[6] \in {"t", "T"}

\* the rows of df that are flights
FlightRows ==
    IF TransportType \in df.cols
    THEN {i \in 1..Len(df.rows) : SpellsFlight(df.rows[i][TransportType])}
    ELSE {}

\* the price of row i in hundredths (0 for a missing price, which a sum skips)
Cents(i) ==
    LET p == df.rows[i][TransportCost]
    IN  IF p.k = "num" THEN (p.n * 100) \div p.d ELSE 0

\* C11: create_flight_metrics selects exactly the rows whose transport type is
\* "flight" in any letter case ("Flight", "FLIGHT", "flight"; not "train", not
\* "flights", not a missing type); the count it reports is their number, the
\* table lists them in order and the total is the sum of their prices.
C11_FlightFilter ==
    (FlightsDone /\ ret.reported) =>
        /\ ret.count = Cardinality(FlightRows)
        /\ Len(ret.table) = Cardinality(FlightRows)
        /\ \A k \in 1..Len(ret.table) :
              ret.table[k] = Project(df.rows[KthOf(FlightRows, k)], {"from", "to", TransportCost})
        /\ ret.total = Num(SumOver(FlightRows, [i \in FlightRows |-> Cents(i)]), 100)
        /\ ret.shown_total = ret.total

\* C11 witness: a "FLIGHT" at 1234.56 after a "flights" at 100: one flight
C11_Witness ==
    /\ FlightsDone /\ ret.reported
    /\ Len(df.rows) = 2
    /\ df.rows[1][TransportType] = <<"f", "l", "i", "g", "h", "t", "s">>
    /\ df.rows[1][TransportCost] = Int2Num(100)
    /\ df.rows[2][TransportType] = <<"F", "L", "I", "G", "H", "T">>
    /\ ret.count = 1
    /\ ret.total = Num(123456, 100)

C13_TableUnchanged == [][pc' = "create_country_summary" => df' = df]_vars

(***************************************************************************)
(* The order of the country summary under order_by = 'id'.  df is the      *)
(* table as the call left it, its id column coerced; the ids of the stays  *)
(* of two different countries differ, so the order is decided by the ids.  *)
(***************************************************************************)
IdOrdered == SummaryShown /\ ret.order_by = "id"

CountryAt(k) == ret.grouped[k].country

\* the id of the first contributing row of country c, which may be missing
FirstRowId(c) == df.rows[KthOf(StaysIn(c), 1)]["id"]

\* the first id that is not missing among the contributing rows of country c
FirstSeenId(c) ==
    LET S == {i \in StaysIn(c) : df.rows[i]["id"].k = "num"}
    IN  IF S = {} THEN NaN ELSE df.rows[KthOf(S, 1)]["id"]

\* a is not after b in ascending order, a missing id being after every id
NotAfter(a, b) == IsNaN(b) \/ (~IsNaN(a) /\ a.n * b.d <= b.n * a.d)

\* the fields of a row of the table shown
ShownFields ==
    {"Country", "Nights", "TotalCost", "AveragePersonNight", "PaidNights",
     "AverageCostPerPaidNightPerson"}

\* C14 as stated: with order_by = 'id' the output rows are in ascending order
\* of the id of the first row of their country in table order.
C14_FirstRowOrder ==
    IdOrdered =>
        \A k, l \in 1..Len(ret.grouped) :
            k < l => NotAfter(FirstRowId(CountryAt(k)), FirstRowId(CountryAt(l)))

\* C14: with order_by = 'id' the output has one row for each country of the
\* rows that keep a country, nights and a total price after the coercion, and
\* for no other; the rows are in ascending order of the first id that is not
\* missing among the contributing rows of their country, a country without any
\* id last; no row of the output has an id field.
C14_FirstSeenOrder ==
    IdOrdered =>
        /\ {CountryAt(k) : k \in 1..Len(ret.grouped)}
               = {df.rows[i]["country"] : i \in CleanStays}
        /\ Len(ret.grouped) = Cardinality({df.rows[i]["country"] : i \in CleanStays})
        /\ \A k, l \in 1..Len(ret.grouped) :
              k < l => NotAfter(FirstSeenId(CountryAt(k)), FirstSeenId(CountryAt(l)))
        /\ \A k \in 1..Len(ret.grouped) :
              /\ "id" \notin DOMAIN ret.grouped[k]
              /\ DOMAIN ret.table[k] = ShownFields

\* C14 witness: Germany's first stay has no id and its second has id 3, Italy's
\* stay has id 6: Germany is shown before Italy
C14_Witness ==
    /\ IdOrdered
    /\ Len(df.rows) = 3
    /\ df.rows[1]["country"] = "Germany" /\ IsNaN(df.rows[1]["id"])
    /\ df.rows[2]["country"] = "Germany" /\ df.rows[2]["id"] = Int2Num(3)
    /\ df.rows[3]["country"] = "Italy" /\ df.rows[3]["id"] = Int2Num(6)
    /\ CleanStays = {1, 2, 3}
    /\ Len(ret.grouped) = 2
    /\ CountryAt(1) = "Germany" /\ CountryAt(2) = "Italy"

(***************************************************************************)
(* The sidebar filters of main, lines 464-540.                             *)
(*                                                                         *)
(* Every interaction runs main again.  load_data is memoized and gives a   *)
(* fresh copy of the loaded table, df, at each run.  A widget without a    *)
(* key is identified by its arguments: the date input, whose arguments     *)
(* come from the loaded table, keeps the user's value from run to run; a   *)
(* multiselect keeps the user's selection while its options are the same   *)
(* and gives its default, every option, when they have changed.            *)
(*                                                                         *)
(* ret is [selected_dates, destinations, platforms, table]: the value of   *)
(* each widget in the last run (<<>> for a date input that is not shown,   *)
(* [options, sel] for a multiselect) and the table handed to               *)
(* create_summary_metrics at line 540.                                     *)
(***************************************************************************)
date_columns ==
    <<"check in", "check out", "date", "departure_date", "arrival_date",
      "booking_date", "travel_date">>

TxtBooking == <<"b", "o", "o", "k", "i", "n", "g">>

\* the date test of a filter that lets the rows without a date through
InDateRangeOrMissing(d, sel) == IsNaN(d) \/ (Leq(sel[1], d) /\ Leq(d, sel[2]))

\* (df[date_col].dt.date >= start_date) & (df[date_col].dt.date <= end_date):
\* a comparison with a missing date is False
InDateRange(d, sel) == ~IsNaN(d) /\ Leq(sel[1], d) /\ Leq(d, sel[2])

Range(q) == {q[i] : i \in 1..Len(q)}

\* Series.unique(): the values in the order of their first appearance
RECURSIVE Unique(_)
Unique(vals) ==
    IF vals = <<>> THEN <<>>
    ELSE LET rest == Unique(SubSeq(vals, 1, Len(vals) - 1))
             last == vals[Len(vals)]
         IN  IF last \in Range(rest) THEN rest ELSE Append(rest, last)

\* df[c].dropna().unique(), na being the missing value of the column
Options(rows, c, na) ==
    LET Known(v) == v # na
    IN  Unique(SelectSeq([i \in 1..Len(rows) |-> rows[i][c]], Known))

\* the missing value of a column: platform holds texts as character sequences
MissingOf(c) == IF c = "platform" THEN NAText ELSE NA

\* the state of a multiselect that was never shown
NoWidget == [options |-> <<>>, sel |-> {}]

NoSession == [selected_dates |-> <<>>, destinations |-> NoWidget, platforms |-> NoWidget]

\* st.sidebar.multiselect(options=options, default=options) in a run after one
\* that left the widget as stored
Multiselect(stored, options) ==
    [options |-> options,
     sel     |-> IF stored.options = options THEN stored.sel ELSE Range(options)]

\* df[df[c].isin(selected)] under "if c:" and "if selected:"
IsinFilter(rows, c, selected) ==
    IF c = None \/ selected = {} THEN rows
    ELSE LET In(r) == r[c] # MissingOf(c) /\ r[c] \in selected
         IN  SelectSeq(rows, In)

\* lines 474-536 on the loaded table t, the widgets as the session w holds them
Filters(t, w) ==
    LET date_col == FirstMatch(date_columns, t.cols)
        HasDate(r) == ~IsNaN(r[date_col])
        df_clean_dates == IF date_col = None THEN <<>> ELSE SelectSeq(t.rows, HasDate)
        shown == df_clean_dates # <<>>
        min_date == MinCol(df_clean_dates, date_col)
        max_date == MaxCol(df_clean_dates, date_col)
        selected_dates ==
            IF ~shown THEN <<>>
            ELSE IF w.selected_dates = <<>> THEN <<min_date, max_date>>
            ELSE w.selected_dates
        InRange(r) == InDateRange(r[date_col], selected_dates)
        df1 == IF shown /\ Len(selected_dates) = 2 THEN SelectSeq(t.rows, InRange)
               ELSE t.rows
        dest_col == FirstMatch(destination_columns, t.cols)
        destinations ==
            IF dest_col = None THEN NoWidget
            ELSE Multiselect(w.destinations, Options(df1, dest_col, MissingOf(dest_col)))
        df2 == IsinFilter(df1, dest_col, destinations.sel)
        type_col == FirstMatch(type_columns, t.cols)
        platforms ==
            IF type_col = None THEN NoWidget
            ELSE Multiselect(w.platforms, Options(df2, type_col, MissingOf(type_col)))
        df3 == IsinFilter(df2, type_col, platforms.sel)
    IN  [raised |-> FALSE,
         selected_dates |-> selected_dates,
         destinations |-> destinations,
         platforms |-> platforms,
         table |-> [cols |-> t.cols, rows |-> df3]]

(***************************************************************************)
(* The filter specification: main runs on a loaded table, and then once    *)
(* more for each change of a filter.                                       *)
(***************************************************************************)
MaxTripRows == 3

TripCols == {"check in", "destination", "platform"}

TripRows ==
    { [c \in TripCols |->
         CASE c = "check in"    -> t[1]
           [] c = "destination" -> t[2]
           [] OTHER             -> t[3]] :
      t \in { <<Jan(1), "Paris, France",   TxtWorkaway>>,
              <<Jan(3), "Berlin, Germany", TxtBooking>>,
              <<Jan(5), "Paris, France",   TxtBooking>>,
              <<NaN,    "Berlin, Germany", NAText>>,
              <<Jan(3), NA,                TxtWorkaway>> } }

TripTables ==
    { [cols |-> cs, rows |-> [i \in DOMAIN rs |-> Project(rs[i], cs)]] :
      cs \in {TripCols} \cup {TripCols \ {c} : c \in TripCols},
      rs \in SeqsUpTo(TripRows, MaxTripRows) }

\* the days a user picks in the date input
PickedDays == {Jan(1), Jan(3), Jan(5)}

\* what st.sidebar.date_input returns after a change: the start alone while the
\* range is being picked, or the range, within min_value and max_value
DateSelections(lo, hi) ==
    LET days == {d \in PickedDays : Leq(lo, d) /\ Leq(d, hi)}
    IN  {<<a>> : a \in days} \cup {p \in days \X days : Leq(p[1], p[2])}

InitFilters ==
    /\ file = NoFile
    /\ df \in TripTables
    /\ ret = NoRet
    /\ msgs = <<>>
    /\ pc = "start"

\* the first run of main: st.stop() on an empty table, else every widget at
\* its default
Main ==
    /\ pc = "start"
    /\ IF IsEmpty(df)
       THEN /\ pc' = "stopped"
            /\ msgs' = Append(msgs, "warning: No data available.")
            /\ UNCHANGED ret
       ELSE /\ pc' = "main"
            /\ ret' = Filters(df, NoSession)
            /\ UNCHANGED msgs
    /\ UNCHANGED <<file, df>>

\* the user changes the date input, and main runs again
ChangeDates ==
    /\ pc = "main"
    /\ ret.selected_dates # <<>>
    /\ LET known == {df.rows[i]["check in"] : i \in 1..Len(df.rows)} \ {NaN}
           lo == CHOOSE d \in known : \A e \in known : Leq(d, e)
           hi == CHOOSE d \in known : \A e \in known : Leq(e, d)
       IN  \E sel \in DateSelections(lo, hi) :
              ret' = Filters(df, [selected_dates |-> sel,
                                  destinations |-> ret.destinations,
                                  platforms |-> ret.platforms])
    /\ UNCHANGED <<file, df, msgs, pc>>

\* the user changes the destination multiselect, and main runs again
ChangeDestinations ==
    /\ pc = "main"
    /\ \E sel \in SUBSET Range(ret.destinations.options) :
          ret' = Filters(df, [selected_dates |-> ret.selected_dates,
                              destinations |-> [ret.destinations EXCEPT !.sel = sel],
                              platforms |-> ret.platforms])
    /\ UNCHANGED <<file, df, msgs, pc>>

\* the user changes the platform multiselect, and main runs again
ChangePlatforms ==
    /\ pc = "main"
    /\ \E sel \in SUBSET Range(ret.platforms.options) :
          ret' = Filters(df, [selected_dates |-> ret.selected_dates,
                              destinations |-> ret.destinations,
                              platforms |-> [ret.platforms EXCEPT !.sel = sel]])
    /\ UNCHANGED <<file, df, msgs, pc>>

NextFilters == Main \/ ChangeDates \/ ChangeDestinations \/ ChangePlatforms

SpecFilters == InitFilters /\ [][NextFilters]_vars

\* main has run, and has handed a table to the aggregations
Filtered == pc = "main"

\* row i of the loaded table satisfies the current selections: a complete date
\* range holds its check-in day, a destination selection that is not empty
\* holds its destination, a platform selection that is not empty its platform
Satisfies(i) ==
    /\ Len(ret.selected_dates) = 2 =>
          /\ df.rows[i]["check in"].k = "num"
          /\ ret.selected_dates[1].n <= df.rows[i]["check in"].n
          /\ df.rows[i]["check in"].n <= ret.selected_dates[2].n
    /\ ret.destinations.sel # {} => df.rows[i]["destination"] \in ret.destinations.sel
    /\ ret.platforms.sel # {} => df.rows[i]["platform"] \in ret.platforms.sel

Kept == {i \in 1..Len(df.rows) : Satisfies(i)}

\* C15: after the first run of main and after any sequence of filter changes,
\* the table handed to the aggregations has the columns of the loaded table and
\* exactly its rows that satisfy the current date range, destination selection
\* and platform selection, in their order; an empty destination or platform
\* selection, and a date selection that is not a complete range, filter nothing.
\* It is determined by the loaded table and the current selections alone.
C15_FilteredTable ==
    Filtered =>
        /\ ret.table.cols = df.cols
        /\ Len(ret.table.rows) = Cardinality(Kept)
        /\ \A k \in 1..Len(ret.table.rows) : ret.table.rows[k] = df.rows[KthOf(Kept, k)]

\* C15 witness: after the dates were narrowed to January 3-5, which changed the
\* destination options, and Paris alone was then selected, only the stay of
\* January 5 is handed on
C15_Witness ==
    /\ Filtered
    /\ df.cols = TripCols
    /\ Len(df.rows) = 3
    /\ df.rows[1]["destination"] = "Paris, France" /\ df.rows[1]["check in"] = Jan(1)
    /\ df.rows[2]["destination"] = "Berlin, Germany" /\ df.rows[2]["check in"] = Jan(3)
    /\ df.rows[3]["destination"] = "Paris, France" /\ df.rows[3]["check in"] = Jan(5)
    /\ ret.selected_dates = <<Jan(3), Jan(5)>>
    /\ ret.destinations = [options |-> <<"Berlin, Germany", "Paris, France">>,
                           sel |-> {"Paris, France"}]
    /\ ret.table.rows = <<df.rows[3]>>

====
